---- MODULE Spec2Model ----
(***************************************************************************)
(* Geofence arrival alarm (src/App.tsx, src/utils/geo.ts, AlarmOverlay and  *)
(* generateArrivalMessage in src/unnamed/part_000).                        *)
(*                                                                         *)
(* The state is the React state of the App component plus the platform's   *)
(* set of active geolocation watches.  Every handler of App is one action; *)
(* the "Geofencing Logic" effect is an action of its own that React runs   *)
(* after every commit in which one of its dependencies changed.  React     *)
(* flushes the pending effects of a commit before it processes the next    *)
(* update, so no handler is taken while an effect run is pending.          *)
(*                                                                         *)
(* Coordinates are integers in units of the angle that subtends one metre  *)
(* on the great circle (180 / (pi * 6371e3) degrees), near the equator.    *)
(* For such small separations the haversine formula                        *)
(*   a = sin^2(dphi/2) + cos(phi1) cos(phi2) sin^2(dlam/2),                *)
(*   d = R * 2 * atan2(sqrt(a), sqrt(1 - a))                               *)
(* is  d = sqrt(dphi^2 + dlam^2)  in these units, taken here to the metre. *)
(***************************************************************************)
EXTENDS Integers, FiniteSets, Sequences, TLC

VARIABLES
    hasStarted,                    \* App.tsx: useState(false)
    permissionError,               \* App.tsx: string | null
    userLocation,                  \* App.tsx: GeoLocation | null
    targetLocation,                \* App.tsx: TargetLocation | null
    distance,                      \* App.tsx: number | null
    targetRadius,                  \* App.tsx: useState(100)
    isAlarmActive,                 \* App.tsx: alarm-active flag
    hasTriggeredForCurrentTarget,  \* App.tsx: ArmState (TRUE = Triggered)
    watchIdRef,                    \* App.tsx: useRef<number | null>
    watches,                       \* platform: the active watchPosition registrations
    nextWatchId,                   \* platform: the id the next watchPosition returns
    hasGeolocation,                \* platform: navigator.geolocation exists
    effectPending,                 \* React: a run of the geofencing effect is due
    mounted,                       \* React: the App component is mounted
    overlay,                       \* AlarmOverlay: message shown, provider request, audio
    geo,                           \* a pair of points and the distances measured between them
    focusRequest,                  \* useState: the camera focus asked of the map
    last,                          \* history: the last handler and what it found and caused
    fresh,                         \* history: what happened since the last handleSetTarget
    epi                            \* history: progress through trigger / dead zone / re-arm / re-entry

vars == <<hasStarted, permissionError, userLocation, targetLocation, distance,
          targetRadius, isAlarmActive, hasTriggeredForCurrentTarget, watchIdRef,
          watches, nextWatchId, hasGeolocation, effectPending, mounted, overlay, geo,
          focusRequest, last, fresh, epi>>

\* null of each type, kept apart so that values of one type are compared
null == [null |-> TRUE]     \* userLocation, targetLocation: no location
NoDistance == -1            \* distance: null
NoWatch == 0                \* watchIdRef.current: null
NoError == "null"           \* permissionError: null

\* ---------------------------------------------------------------- bounds
MaxWatches == 3      \* watch ids handed out by the platform in one run
MaxEvents == 3       \* arrival events counted since the last handleSetTarget

\* ------------------------------------------------------ program constants
DefaultRadius == 100
HysteresisBand == 50

\* ------------------------------------------------------------ input sets
Lats == {40, 50, 80, 90, 120, 150, 200, 500}
FixCoords == {[lat |-> y, lng |-> 0] : y \in Lats} \cup {[lat |-> 30, lng |-> 40]}
TargetCoords == {[lat |-> 0, lng |-> 0], [lat |-> 120, lng |-> 0]}
Radii == {50, 100, 200}
ErrorCodes == {0, 1, 2, 3}
GeoPoints == {[lat |-> y, lng |-> x] : y \in {-70, 0, 30, 120}, x \in {-40, 0, 40}}

MsgUnsupported == "Geolocation is not supported by your browser"
MsgDenied == "Location access denied. Please enable location permissions."
MsgUnavailable == "Location unavailable. Please check your GPS signal."
MsgTimeout == "Location request timed out. Please try again."
MsgOther == "Location error"

MsgInitial == "You have arrived."                        \* AlarmOverlay: useState
MsgFallback == "You have arrived at your destination!"   \* generateArrivalMessage
MsgGenerated == "<generated text>"                       \* response.text
Texts == {MsgGenerated, ""}

\* ------------------------------------------------------------- geo.ts
Abs(x) == IF x < 0 THEN -x ELSE x

RECURSIVE ISqrtIn(_, _, _)
ISqrtIn(n, lo, hi) ==
    IF lo >= hi THEN lo
    ELSE LET mid == (lo + hi + 1) \div 2
         IN  IF mid * mid <= n THEN ISqrtIn(n, mid, hi) ELSE ISqrtIn(n, lo, mid - 1)

\* variant: the longitude difference is taken from the latitude of point1
calculateDistance_Typo(point1, point2) ==
    LET dPhi == point2.lat - point1.lat
        dLam == point2.lng - point1.lat
    IN  ISqrtIn(dPhi * dPhi + dLam * dLam, 0, Abs(dPhi) + Abs(dLam))

calculateDistance(point1, point2) ==
    LET dPhi == point2.lat - point1.lat
        dLam == point2.lng - point1.lng
    IN  ISqrtIn(dPhi * dPhi + dLam * dLam, 0, Abs(dPhi) + Abs(dLam))

\* the distance the effect would compute now, null without position or target
CurDist ==
    IF userLocation # null /\ targetLocation # null
    THEN calculateDistance(userLocation, targetLocation)
    ELSE NoDistance

\* ------------------------------------------------------------ history
NoLast == [op |-> "none", fired |-> 0, trig |-> FALSE, active |-> FALSE,
           high |-> FALSE, code |-> 0, cleared |-> FALSE, same |-> FALSE]
NoFresh == [only |-> FALSE, n |-> 0, atSet |-> FALSE, inside |-> 0, rearm |-> FALSE]
NoEpi == [phase |-> 0, n |-> 0, dis |-> FALSE]

\* the handler op begins: remember the arm state and alarm flag it found
Began(op) == [op |-> op, fired |-> 0, trig |-> hasTriggeredForCurrentTarget,
              active |-> isAlarmActive, high |-> FALSE, code |-> 0,
              cleared |-> last.cleared, same |-> FALSE]

Inside(d, r) == d <= r
DeadZone(d, r) == d > r /\ d <= r + HysteresisBand
Beyond(d, r) == d > r + HysteresisBand

\* fresh after a fix at distance d from a target of radius r
FreshAfterFix(d, r) ==
    IF ~fresh.only THEN fresh
    ELSE [fresh EXCEPT
            !.inside = IF Inside(d, r) /\ fresh.inside < 2 THEN fresh.inside + 1
                       ELSE fresh.inside,
            !.rearm = fresh.rearm \/ (Beyond(d, r) /\ hasTriggeredForCurrentTarget)]

\* epi after a fix at distance d from a target of radius r
EpiAfterFix(d, r) ==
    IF epi.phase = 1 /\ DeadZone(d, r) THEN [epi EXCEPT !.phase = 2]
    ELSE IF epi.phase = 2 /\ Beyond(d, r) THEN [epi EXCEPT !.phase = 3]
    ELSE IF epi.phase = 3 /\ Inside(d, r)
         THEN [epi EXCEPT !.phase = 4, !.dis = ~isAlarmActive]
    ELSE IF Inside(d, r) /\ ~hasTriggeredForCurrentTarget /\ ~isAlarmActive
         THEN [phase |-> 1, n |-> 0, dis |-> FALSE]
    ELSE NoEpi

\* variant: the position is missing from the dependency list
EffectDeps_NoUserLocation ==
    {"targetLocation", "hasTriggeredForCurrentTarget", "isAlarmActive"}

\* the dependency list of the geofencing effect (triggerAlarm never changes)
EffectDeps ==
    {"userLocation", "targetLocation", "hasTriggeredForCurrentTarget", "isAlarmActive"}

\* a commit that changed these state variables makes the effect run
DueAfter(changed) == (changed \cap EffectDeps) # {}

\* no pair of points is being measured
NoGeo == [a |-> null, b |-> null, ab |-> NoDistance, ba |-> NoDistance,
          aa |-> NoDistance, measured |-> FALSE]

\* the effect of AlarmOverlay, which runs when isVisible changed: it plays the
\* audio and asks for the arrival message, or stops the audio and drops the
\* outstanding request (isMounted = false)
OverlayEffect(ov, wasVisible, isVisible) ==
    IF isVisible = wasVisible THEN ov
    ELSE IF isVisible THEN [ov EXCEPT !.audio = "playing", !.provider = "pending"]
    ELSE [ov EXCEPT !.audio = "silent", !.provider = "idle"]

\* ---------------------------------------------------------------- Init
Init ==
    /\ hasStarted = FALSE
    /\ permissionError = NoError
    /\ userLocation = null
    /\ targetLocation = null
    /\ distance = NoDistance
    /\ targetRadius = DefaultRadius
    /\ isAlarmActive = FALSE
    /\ hasTriggeredForCurrentTarget = FALSE
    /\ watchIdRef = NoWatch
    /\ watches = {}
    /\ nextWatchId = 1
    /\ hasGeolocation \in BOOLEAN
    /\ effectPending = FALSE
    /\ mounted = TRUE
    /\ overlay = [message |-> MsgInitial, provider |-> "idle", audio |-> "silent"]
    /\ geo = NoGeo
    /\ focusRequest = null
    /\ last = NoLast
    /\ fresh = NoFresh
    /\ epi = NoEpi

\* ------------------------------------------------- location source
\* navigator.geolocation.watchPosition: registers a watch and returns its id
attemptWatch(isHighAccuracy, active) ==
    /\ nextWatchId <= MaxWatches
    /\ watches' = active \cup {[id |-> nextWatchId, high |-> isHighAccuracy]}
    /\ watchIdRef' = nextWatchId
    /\ nextWatchId' = nextWatchId + 1

\* variant: the browser's support for geolocation is not checked
startWatchingLocation_NoSupportCheck(initialHighAccuracy) ==
    /\ permissionError' = NoError
    /\ attemptWatch(initialHighAccuracy, {w \in watches : w.id # watchIdRef})

\* startWatchingLocation(true) as called by handleStart
startWatchingLocation(initialHighAccuracy) ==
    LET cleared == {w \in watches : w.id # watchIdRef}
    IN  IF ~hasGeolocation
        THEN /\ permissionError' = MsgUnsupported
             /\ watches' = cleared
             /\ watchIdRef' = NoWatch
             /\ nextWatchId' = nextWatchId
        ELSE /\ permissionError' = NoError
             /\ attemptWatch(initialHighAccuracy, cleared)

handleStart ==
    /\ mounted
    /\ ~effectPending
    /\ ~hasStarted \/ userLocation = null
    /\ hasStarted' = TRUE
    /\ startWatchingLocation(TRUE)
    /\ last' = Began("start")
    /\ UNCHANGED <<userLocation, targetLocation, distance, targetRadius, isAlarmActive,
                   hasTriggeredForCurrentTarget, hasGeolocation, effectPending, fresh, epi,
                   mounted, overlay, geo,
                   focusRequest>>

\* watchPosition success callback of watch w
Fix(w, pos) ==
    /\ ~effectPending
    /\ w \in watches
    /\ last' = [Began("fix") EXCEPT !.same = (pos = userLocation)]
    /\ IF mounted
       THEN /\ userLocation' = pos
            /\ permissionError' = NoError
            /\ effectPending' = DueAfter({"userLocation"})
            /\ IF targetLocation # null
               THEN LET d == calculateDistance(pos, targetLocation)
                    IN  /\ fresh' = FreshAfterFix(d, targetLocation.radius)
                        /\ epi' = EpiAfterFix(d, targetLocation.radius)
               ELSE UNCHANGED <<fresh, epi>>
       ELSE \* state updates of an unmounted component are dropped
            UNCHANGED <<userLocation, permissionError, effectPending, fresh, epi>>
    /\ UNCHANGED <<hasStarted, targetLocation, distance, targetRadius, isAlarmActive,
                   hasTriggeredForCurrentTarget, watchIdRef, watches, nextWatchId,
                   hasGeolocation, mounted, overlay, geo,
                   focusRequest>>

ErrorMessage(code) ==
    CASE code = 1 -> MsgDenied
      [] code = 2 -> MsgUnavailable
      [] code = 3 -> MsgTimeout
      [] OTHER -> MsgOther

\* variant: only a timeout falls back
FallsBack_TimeoutOnly(isHighAccuracy, code) == isHighAccuracy /\ code = 3

\* variant: the tier of the failed watch is not looked at
FallsBack_AnyTier(isHighAccuracy, code) == code = 3 \/ code = 2

\* the error callback falls back to low accuracy instead of reporting
FallsBack(isHighAccuracy, code) == isHighAccuracy /\ (code = 3 \/ code = 2)

\* variant: a surfaced error forgets the last known position
PositionError_ClearsLocation(w, code) ==
    /\ ~effectPending
    /\ w \in watches
    /\ IF FallsBack(w.high, code)
       THEN /\ attemptWatch(FALSE, watches)
            /\ UNCHANGED <<permissionError, userLocation, effectPending>>
       ELSE /\ permissionError' = (IF mounted THEN ErrorMessage(code) ELSE permissionError)
            /\ userLocation' = null
            /\ effectPending' = DueAfter({"userLocation"})
            /\ UNCHANGED <<watchIdRef, watches, nextWatchId>>
    /\ last' = [Began("error") EXCEPT !.high = w.high, !.code = code]
    /\ UNCHANGED <<hasStarted, targetLocation, distance, targetRadius,
                   isAlarmActive, hasTriggeredForCurrentTarget, hasGeolocation,
                   fresh, epi, mounted, overlay, geo,
                   focusRequest>>

\* watchPosition error callback of watch w
PositionError(w, code) ==
    /\ ~effectPending
    /\ w \in watches
    /\ IF FallsBack(w.high, code)
       THEN /\ attemptWatch(FALSE, watches)
            /\ UNCHANGED permissionError
       ELSE /\ permissionError' = (IF mounted THEN ErrorMessage(code) ELSE permissionError)
            /\ UNCHANGED <<watchIdRef, watches, nextWatchId>>
    /\ last' = [Began("error") EXCEPT !.high = w.high, !.code = code]
    /\ UNCHANGED <<hasStarted, userLocation, targetLocation, distance, targetRadius,
                   isAlarmActive, hasTriggeredForCurrentTarget, hasGeolocation,
                   effectPending, fresh, epi, mounted, overlay, geo,
                   focusRequest>>

\* ------------------------------------------------------- geofence engine
\* variant: triggerAlarm is called on every evaluation inside the radius
GeofenceCheck_NoGuard(dist, radius, active, trig) ==
    IF dist <= radius
    THEN [active |-> TRUE, trig |-> TRUE, fired |-> 1]
    ELSE IF dist > radius + HysteresisBand
         THEN [active |-> active, trig |-> FALSE, fired |-> 0]
         ELSE [active |-> active, trig |-> trig, fired |-> 0]

\* variant: the arm state is never reset by moving out
GeofenceCheck_NoReset(dist, radius, active, trig) ==
    IF dist <= radius /\ ~active /\ ~trig
    THEN [active |-> TRUE, trig |-> TRUE, fired |-> 1]
    ELSE [active |-> active, trig |-> trig, fired |-> 0]

\* variant: the arm state is reset as soon as the position is outside the radius
GeofenceCheck_NoBand(dist, radius, active, trig) ==
    IF dist <= radius
    THEN IF ~active /\ ~trig
         THEN [active |-> TRUE, trig |-> TRUE, fired |-> 1]
         ELSE [active |-> active, trig |-> trig, fired |-> 0]
    ELSE [active |-> active, trig |-> FALSE, fired |-> 0]

\* the branch of the geofencing effect taken once the distance is known:
\* the alarm flag and arm state it leaves, and whether triggerAlarm was called
GeofenceCheck(dist, radius, active, trig) ==
    IF dist <= radius
    THEN IF ~active /\ ~trig
         THEN [active |-> TRUE, trig |-> TRUE, fired |-> 1]
         ELSE [active |-> active, trig |-> trig, fired |-> 0]
    ELSE IF dist > radius + HysteresisBand
         THEN [active |-> active, trig |-> FALSE, fired |-> 0]
         ELSE [active |-> active, trig |-> trig, fired |-> 0]

\* one run of the "Geofencing Logic" effect; it runs again when it changed
\* one of its own dependencies
GeofenceEffect ==
    /\ mounted
    /\ effectPending
    /\ IF userLocation # null /\ targetLocation # null
       THEN LET dist == calculateDistance(userLocation, targetLocation)
                res == GeofenceCheck(dist, targetLocation.radius, isAlarmActive,
                                     hasTriggeredForCurrentTarget)
            IN  /\ res.fired = 1 /\ fresh.only => fresh.n < MaxEvents
                /\ res.fired = 1 /\ epi.phase > 0 => epi.n < MaxEvents
                /\ distance' = dist
                /\ isAlarmActive' = res.active
                /\ overlay' = OverlayEffect(overlay, isAlarmActive, res.active)
                /\ hasTriggeredForCurrentTarget' = res.trig
                /\ effectPending' =
                      DueAfter((IF res.active # isAlarmActive
                                THEN {"isAlarmActive"} ELSE {})
                               \cup (IF res.trig # hasTriggeredForCurrentTarget
                                     THEN {"hasTriggeredForCurrentTarget"} ELSE {}))
                /\ last' = [last EXCEPT !.fired = @ + res.fired]
                /\ fresh' = IF fresh.only THEN [fresh EXCEPT !.n = @ + res.fired] ELSE fresh
                /\ epi' = IF epi.phase > 0 THEN [epi EXCEPT !.n = @ + res.fired] ELSE epi
       ELSE /\ distance' = NoDistance
            /\ effectPending' = FALSE
            /\ UNCHANGED <<isAlarmActive, hasTriggeredForCurrentTarget, overlay, last,
                           fresh, epi>>
    /\ UNCHANGED <<hasStarted, permissionError, userLocation, targetLocation, targetRadius,
                   watchIdRef, watches, nextWatchId, hasGeolocation, mounted, geo,
                   focusRequest>>

\* variant: the arm state of the previous target is kept
SetTargetFlags_KeepArmState(trig, active) == [trig |-> trig, active |-> FALSE]

\* variant: the alarm of the previous target keeps ringing
SetTargetFlags_KeepAlarm(trig, active) == [trig |-> FALSE, active |-> active]

\* the arm state and alarm flag handleSetTarget writes
SetTargetFlags(trig, active) == [trig |-> FALSE, active |-> FALSE]

\* variant: the alarm of the cleared target keeps ringing
ClearTargetFlags_KeepAlarm(trig, active) == [trig |-> FALSE, active |-> active]

\* variant: the arm state of the cleared target is kept
ClearTargetFlags_KeepArmState(trig, active) == [trig |-> trig, active |-> FALSE]

\* the arm state and alarm flag handleClearTarget writes
ClearTargetFlags(trig, active) == [trig |-> FALSE, active |-> FALSE]

\* variant: a new target starts from the default radius
TargetOf_DefaultRadius(location, radius) ==
    [lat |-> location.lat, lng |-> location.lng, radius |-> DefaultRadius]

\* the target handleSetTarget stores: the location with the current radius
TargetOf(location, radius) ==
    [lat |-> location.lat, lng |-> location.lng, radius |-> radius]

\* what handleSetTarget does to the session, focusRequest apart
SetTarget(location) ==
    /\ mounted
    /\ ~effectPending
    /\ userLocation # null
    /\ targetLocation' = TargetOf(location, targetRadius)
    /\ hasTriggeredForCurrentTarget' =
           SetTargetFlags(hasTriggeredForCurrentTarget, isAlarmActive).trig
    /\ isAlarmActive' = SetTargetFlags(hasTriggeredForCurrentTarget, isAlarmActive).active
    /\ overlay' = OverlayEffect(overlay, isAlarmActive, isAlarmActive')
    /\ effectPending' = DueAfter({"targetLocation"})
    /\ last' = [Began("setTarget") EXCEPT !.cleared = FALSE]
    /\ fresh' = [only |-> TRUE, n |-> 0,
                 atSet |-> Inside(calculateDistance(userLocation, location), targetRadius),
                 inside |-> 0, rearm |-> FALSE]
    /\ epi' = NoEpi
    /\ UNCHANGED <<hasStarted, permissionError, userLocation, distance, targetRadius,
                   watchIdRef, watches, nextWatchId, hasGeolocation, mounted, geo>>

\* map click (GeofenceMap is rendered only once a position is known)
handleSetTarget(location) ==
    /\ SetTarget(location)
    /\ UNCHANGED focusRequest

\* variant: the camera focus is asked on whatever was asked before
CenterFocus_Stale(cur, req) == req

\* the focus request handleCenterLocation leaves, cur the position known
CenterFocus(cur, req) == IF cur # null THEN [location |-> cur] ELSE req

\* a result picked in the search list (Controls is rendered only once a
\* position is known): handleSetTarget, then the camera is asked to focus on it
handleSearchSelect(location) ==
    /\ SetTarget(location)
    /\ focusRequest' = [location |-> location]

\* recenter button of Controls; the timestamp of the request is left out
handleCenterLocation ==
    /\ mounted
    /\ ~effectPending
    /\ userLocation # null
    /\ focusRequest' = CenterFocus(userLocation, focusRequest)
    /\ last' = Began("center")
    /\ UNCHANGED <<hasStarted, permissionError, userLocation, targetLocation, distance,
                   targetRadius, isAlarmActive, hasTriggeredForCurrentTarget, watchIdRef,
                   watches, nextWatchId, hasGeolocation, effectPending, mounted, overlay,
                   geo, fresh, epi>>

\* radius slider (rendered by Controls only while a target exists)
handleRadiusChange(newRadius) ==
    /\ mounted
    /\ ~effectPending
    /\ userLocation # null
    /\ targetLocation # null
    /\ targetRadius' = newRadius
    /\ targetLocation' = [targetLocation EXCEPT !.radius = newRadius]
    /\ effectPending' = DueAfter({"targetLocation"})
    /\ last' = Began("radius")
    /\ fresh' = NoFresh
    /\ epi' = NoEpi
    /\ UNCHANGED <<hasStarted, permissionError, userLocation, distance, isAlarmActive,
                   hasTriggeredForCurrentTarget, watchIdRef, watches, nextWatchId,
                   hasGeolocation, mounted, overlay, geo,
                   focusRequest>>

\* "End Navigation" button (rendered by Controls only while a target exists)
handleClearTarget ==
    /\ mounted
    /\ ~effectPending
    /\ userLocation # null
    /\ targetLocation # null
    /\ targetLocation' = null
    /\ isAlarmActive' = ClearTargetFlags(hasTriggeredForCurrentTarget, isAlarmActive).active
    /\ overlay' = OverlayEffect(overlay, isAlarmActive, isAlarmActive')
    /\ hasTriggeredForCurrentTarget' =
           ClearTargetFlags(hasTriggeredForCurrentTarget, isAlarmActive).trig
    /\ effectPending' = DueAfter({"targetLocation"})
    /\ last' = [Began("clear") EXCEPT !.cleared = TRUE]
    /\ fresh' = NoFresh
    /\ epi' = NoEpi
    /\ UNCHANGED <<hasStarted, permissionError, userLocation, distance, targetRadius,
                   watchIdRef, watches, nextWatchId, hasGeolocation, mounted, geo,
                   focusRequest>>

\* "Stop Alarm" button (AlarmOverlay renders it only while the alarm is active)
handleDismissAlarm ==
    /\ mounted
    /\ ~effectPending
    /\ isAlarmActive
    /\ isAlarmActive' = FALSE
    /\ overlay' = OverlayEffect(overlay, isAlarmActive, FALSE)
    /\ effectPending' = DueAfter({"isAlarmActive"})
    /\ last' = Began("dismiss")
    /\ fresh' = NoFresh
    /\ epi' = IF epi.phase \in 1..3 THEN epi ELSE NoEpi
    /\ UNCHANGED <<hasStarted, permissionError, userLocation, targetLocation, distance,
                   targetRadius, hasTriggeredForCurrentTarget, watchIdRef, watches,
                   nextWatchId, hasGeolocation, mounted, geo,
                   focusRequest>>

\* ------------------------------------------------------------ teardown
\* cleanup of the mount effect: clears the watch watchIdRef holds, if any
Unmount ==
    /\ mounted
    /\ ~effectPending
    /\ mounted' = FALSE
    /\ watches' = {w \in watches : w.id # watchIdRef}
    /\ overlay' = [overlay EXCEPT !.provider = "idle"]
    /\ last' = Began("unmount")
    /\ UNCHANGED <<hasStarted, permissionError, userLocation, targetLocation, distance,
                   targetRadius, isAlarmActive, hasTriggeredForCurrentTarget, watchIdRef,
                   nextWatchId, hasGeolocation, effectPending, geo, focusRequest,
                   fresh, epi>>

\* ------------------------------------------------------- alarm overlay
\* generateArrivalMessage resolves with the provider's answer; an empty text
\* is replaced by the fallback string
ProviderAnswers(text) ==
    /\ mounted
    /\ ~effectPending
    /\ overlay.provider = "pending"
    /\ overlay' = [overlay EXCEPT !.provider = "answered",
                                  !.message = IF text = "" THEN MsgFallback ELSE text]
    /\ UNCHANGED <<hasStarted, permissionError, userLocation, targetLocation, distance,
                   targetRadius, isAlarmActive, hasTriggeredForCurrentTarget, watchIdRef,
                   watches, nextWatchId, hasGeolocation, effectPending, mounted, geo,
                   focusRequest, last, fresh, epi>>

\* generateArrivalMessage catches the provider's failure
ProviderFails ==
    /\ mounted
    /\ ~effectPending
    /\ overlay.provider = "pending"
    /\ overlay' = [overlay EXCEPT !.provider = "failed", !.message = MsgFallback]
    /\ UNCHANGED <<hasStarted, permissionError, userLocation, targetLocation, distance,
                   targetRadius, isAlarmActive, hasTriggeredForCurrentTarget, watchIdRef,
                   watches, nextWatchId, hasGeolocation, effectPending, mounted, geo,
                   focusRequest, last, fresh, epi>>

\* variant: the timer also dismisses the alarm
AutoStop_DismissesAlarm ==
    /\ mounted
    /\ ~effectPending
    /\ isAlarmActive
    /\ overlay.audio = "playing"
    /\ overlay' = [overlay EXCEPT !.audio = "silent"]
    /\ isAlarmActive' = FALSE
    /\ UNCHANGED <<hasStarted, permissionError, userLocation, targetLocation, distance,
                   targetRadius, hasTriggeredForCurrentTarget, watchIdRef,
                   watches, nextWatchId, hasGeolocation, effectPending, mounted, geo,
                   focusRequest, last, fresh, epi>>

\* the 20 s timer of the overlay stops the audio; the alarm stays active
AutoStop ==
    /\ mounted
    /\ ~effectPending
    /\ isAlarmActive
    /\ overlay.audio = "playing"
    /\ overlay' = [overlay EXCEPT !.audio = "silent"]
    /\ UNCHANGED <<hasStarted, permissionError, userLocation, targetLocation, distance,
                   targetRadius, isAlarmActive, hasTriggeredForCurrentTarget, watchIdRef,
                   watches, nextWatchId, hasGeolocation, effectPending, mounted, geo,
                   focusRequest, last, fresh, epi>>

\* ------------------------------------------------------- distance alone
\* calculateDistance applied to the pair of points, in both orders and to a
\* point and itself
Measure ==
    /\ geo.a # null
    /\ ~geo.measured
    /\ geo' = [geo EXCEPT !.ab = calculateDistance(geo.a, geo.b),
                          !.ba = calculateDistance(geo.b, geo.a),
                          !.aa = calculateDistance(geo.a, geo.a),
                          !.measured = TRUE]
    /\ UNCHANGED <<hasStarted, permissionError, userLocation, targetLocation, distance,
                   targetRadius, isAlarmActive, hasTriggeredForCurrentTarget, watchIdRef,
                   watches, nextWatchId, hasGeolocation, effectPending, mounted, overlay,
                   focusRequest, last, fresh, epi>>

\* ---------------------------------------------------------------- Next
Next ==
    \/ handleStart
    \/ \E w \in watches, pos \in FixCoords : Fix(w, pos)
    \/ \E w \in watches, code \in ErrorCodes : PositionError(w, code)
    \/ GeofenceEffect
    \/ \E location \in TargetCoords : handleSetTarget(location)
    \/ \E newRadius \in Radii : handleRadiusChange(newRadius)
    \/ handleClearTarget
    \/ handleDismissAlarm

Spec == Init /\ [][Next]_vars

\* the session with its teardown
NextLife ==
    \/ Next
    \/ Unmount

SpecLife == Init /\ [][NextLife]_vars

\* the session with the arrival-message provider and the audio timer, on one
\* target and on a fix inside and a fix far outside each of its radii
OverlayFixes == {[lat |-> 40, lng |-> 0], [lat |-> 500, lng |-> 0]}
OverlayTargets == {[lat |-> 0, lng |-> 0]}
OverlayRadii == {50, 100}

NextOverlay ==
    \/ handleStart
    \/ \E w \in watches, pos \in OverlayFixes : Fix(w, pos)
    \/ \E w \in watches, code \in ErrorCodes : PositionError(w, code)
    \/ GeofenceEffect
    \/ \E location \in OverlayTargets : handleSetTarget(location)
    \/ \E newRadius \in OverlayRadii : handleRadiusChange(newRadius)
    \/ handleClearTarget
    \/ handleDismissAlarm
    \/ \E text \in Texts : ProviderAnswers(text)
    \/ ProviderFails
    \/ AutoStop

SpecOverlay == Init /\ [][NextOverlay]_vars

\* the session with the search list and the recenter button, on a fix inside
\* and a fix far outside the radii
NextCamera ==
    \/ handleStart
    \/ \E w \in watches, pos \in OverlayFixes : Fix(w, pos)
    \/ \E w \in watches, code \in ErrorCodes : PositionError(w, code)
    \/ GeofenceEffect
    \/ \E location \in TargetCoords : handleSetTarget(location)
    \/ \E location \in TargetCoords : handleSearchSelect(location)
    \/ \E newRadius \in Radii : handleRadiusChange(newRadius)
    \/ handleClearTarget
    \/ handleDismissAlarm
    \/ handleCenterLocation

SpecCamera == Init /\ [][NextCamera]_vars

\* calculateDistance on pairs of points
InitGeo ==
    /\ hasStarted = FALSE
    /\ permissionError = NoError
    /\ userLocation = null
    /\ targetLocation = null
    /\ distance = NoDistance
    /\ targetRadius = DefaultRadius
    /\ isAlarmActive = FALSE
    /\ hasTriggeredForCurrentTarget = FALSE
    /\ watchIdRef = NoWatch
    /\ watches = {}
    /\ nextWatchId = 1
    /\ hasGeolocation = FALSE
    /\ effectPending = FALSE
    /\ mounted = TRUE
    /\ overlay = [message |-> MsgInitial, provider |-> "idle", audio |-> "silent"]
    /\ geo \in {[NoGeo EXCEPT !.a = a, !.b = b] : a \in GeoPoints, b \in GeoPoints}
    /\ focusRequest = null
    /\ last = NoLast
    /\ fresh = NoFresh
    /\ epi = NoEpi

NextGeo == Measure

SpecGeo == InitGeo /\ [][NextGeo]_vars

\* ================================================================ claims
HasTarget == userLocation # null /\ targetLocation # null
Settled == ~effectPending
FixSettled == last.op = "fix" /\ Settled /\ HasTarget

\* C1: after a fresh handleSetTarget followed by fixes only, the
\* first fix with distance <= R emits exactly one arrival event, and a later
\* fix with distance <= R emits none until a fix beyond R + 50 has re-armed.
C1_FirstFixInsideFires ==
    (fresh.only /\ FixSettled /\ Inside(CurDist, targetLocation.radius))
        => IF fresh.inside = 1 THEN last.fired = 1
           ELSE fresh.rearm \/ last.fired = 0

\* What the code does in place of C1: after a fresh handleSetTarget followed
\* by fixes only, exactly one arrival event is emitted by the first evaluation
\* with distance <= R: by handleSetTarget's own evaluation when the last known
\* position is already within R (and then the first fix inside emits none),
\* otherwise by the first fix with distance <= R; later fixes with distance
\* <= R emit no further event until a fix beyond R + 50 has re-armed.
C1_FirstArrivalOnce ==
    (fresh.only /\ Settled /\ HasTarget) =>
        /\ ~fresh.rearm => fresh.n = (IF fresh.atSet \/ fresh.inside > 0 THEN 1 ELSE 0)
        /\ last.op = "setTarget" => last.fired = (IF fresh.atSet THEN 1 ELSE 0)
        /\ (last.op = "fix" /\ Inside(CurDist, targetLocation.radius)) =>
              IF fresh.inside = 1 /\ ~fresh.atSet THEN last.fired = 1
              ELSE fresh.rearm \/ last.fired = 0

\* a second fix inside the radius (40 m, R = 100) after a fresh target set from outside
C1_Witness ==
    /\ fresh.only /\ FixSettled /\ ~fresh.atSet /\ ~fresh.rearm
    /\ fresh.inside = 2 /\ fresh.n = 1 /\ last.fired = 0
    /\ targetLocation.radius = 100 /\ CurDist = 40

\* C2: a fix inside the radius that triggers, then a fix in the dead zone, then
\* a fix beyond R + 50, then a fix inside again (only fixes and dismissals in
\* between) yield exactly two arrival events, dismissed or not.
C2_TwoArrivalsPerTwoEpisodes ==
    (epi.phase = 4 /\ Settled) => epi.n = 2

\* C3: a fix with distance > R + 50 processed while Triggered leaves the arm
\* state Armed and emits no arrival event.
C3_HysteresisRearm ==
    (FixSettled /\ last.trig /\ Beyond(CurDist, targetLocation.radius))
        => ~hasTriggeredForCurrentTarget /\ last.fired = 0

C3_Witness ==
    /\ FixSettled /\ last.trig /\ Beyond(CurDist, targetLocation.radius)
    /\ ~hasTriggeredForCurrentTarget /\ distance = CurDist

\* C4: a fix with R < distance <= R + 50 leaves the arm state and the alarm
\* flag as they were and emits no arrival event.
C4_DeadZoneFrame ==
    (last.op = "fix" /\ HasTarget /\ DeadZone(CurDist, targetLocation.radius))
        => /\ hasTriggeredForCurrentTarget = last.trig
           /\ isAlarmActive = last.active
           /\ last.fired = 0

C4_Witness ==
    /\ FixSettled /\ DeadZone(CurDist, targetLocation.radius)
    /\ last.trig /\ hasTriggeredForCurrentTarget /\ distance = CurDist

\* C5: a radius change made while Triggered never resets the arm state to
\* Armed and never emits an arrival event.
C5_RadiusKeepsArmState ==
    (last.op = "radius" /\ last.trig)
        => hasTriggeredForCurrentTarget /\ last.fired = 0

C7_DismissOnlyClears ==
    last.op = "dismiss"
        => /\ hasTriggeredForCurrentTarget = last.trig
           /\ last.fired = 0
           /\ Settled => ~isAlarmActive

\* C8: handleClearTarget leaves no target, no arm state, no alarm and (once
\* the effect has run) no distance; until a new target is set no fix emits an
\* arrival event.
C8_ClearTarget ==
    /\ last.op = "clear" => targetLocation = null /\ last.cleared
    /\ last.cleared =>
          /\ targetLocation = null
          /\ ~hasTriggeredForCurrentTarget
          /\ ~isAlarmActive
          /\ last.fired = 0
          /\ Settled => distance = NoDistance

\* a fix processed after a target that was Triggered and ringing has been cleared
C8_Witness ==
    /\ last.cleared /\ last.op = "fix" /\ Settled
    /\ targetLocation = null /\ distance = NoDistance /\ ~isAlarmActive

\* C9: Timeout (3) or PositionUnavailable (2) reported by a High-tier watch
\* makes the source start a Low-tier watch and surfaces no error.
C9_HighTierFallback ==
    [][\A w \in watches, code \in {2, 3} :
          (w.high /\ PositionError(w, code))
             => /\ permissionError' = permissionError
                /\ watchIdRef' \notin {v.id : v \in watches}
                /\ [id |-> watchIdRef', high |-> FALSE] \in watches']_vars

C9_Witness ==
    /\ last.op = "error" /\ last.high /\ last.code = 2
    /\ permissionError = NoError
    /\ [id |-> watchIdRef, high |-> FALSE] \in watches

\* C10: PermissionDenied (1) is surfaced as such at either tier without a
\* restart; Timeout or PositionUnavailable from a Low-tier watch is surfaced
\* with its own classification without a restart.
C10_ErrorSurfaced ==
    [][\A w \in watches, code \in {1, 2, 3} :
          (PositionError(w, code) /\ (code = 1 \/ ~w.high))
             => /\ permissionError' = (IF code = 1 THEN MsgDenied
                                       ELSE IF code = 2 THEN MsgUnavailable
                                       ELSE MsgTimeout)
                /\ UNCHANGED <<watchIdRef, watches, nextWatchId>>]_vars

C10_Witness ==
    /\ last.op = "error" /\ ~last.high /\ last.code = 3
    /\ permissionError = MsgTimeout
    /\ [id |-> watchIdRef, high |-> FALSE] \in watches

\* C11: in every reachable state at most one platform location watch is
\* active: a new observation is begun only after the previous one is released.
C11_AtMostOneWatch ==
    Cardinality(watches) <= 1

\* C13: without location capability, start surfaces the Unsupported error,
\* registers no watch and never retries or falls back.
C13_Unsupported ==
    ~hasGeolocation =>
        /\ watches = {} /\ watchIdRef = NoWatch /\ nextWatchId = 1
        /\ hasStarted => permissionError = MsgUnsupported
        /\ last.op \in {"none", "start"}

C13_Witness ==
    /\ ~hasGeolocation /\ hasStarted /\ last.op = "start"
    /\ permissionError = MsgUnsupported /\ watches = {}

\* C15: while no target exists there is no arm state and no alarm, and a fix
\* received then only replaces the position and emits no arrival event.
C15_NoTargetNoArmState ==
    /\ [](targetLocation = null =>
             /\ ~hasTriggeredForCurrentTarget
             /\ ~isAlarmActive
             /\ last.fired = 0)
    /\ [][(targetLocation = null /\ \E w \in watches, pos \in FixCoords : Fix(w, pos))
             => /\ userLocation' \in FixCoords
                /\ UNCHANGED <<targetLocation, targetRadius, distance, isAlarmActive,
                               hasTriggeredForCurrentTarget>>]_vars

\* a fix processed before any target was ever set
C15_Witness ==
    /\ targetLocation = null /\ userLocation # null /\ ~last.cleared
    /\ last.op = "fix" /\ Settled /\ last.fired = 0 /\ distance = NoDistance

\* C16: in every settled state the stored distance is the distance between
\* the latest position and the current target, and null when either is missing.
C16_DistanceNeverStale ==
    Settled => distance = CurDist

\* settled after a fix that moved the position relative to an existing target
C16_Witness ==
    /\ FixSettled /\ distance = CurDist /\ distance = 200
    /\ targetLocation.lat = 0

\* C18: none of the commands setTarget, setRadius, dismiss and clearTarget by
\* itself causes an arrival event; only the processing of a fix does.
C18_OnlyFixesFire ==
    last.op \in {"setTarget", "radius", "dismiss", "clear"} => last.fired = 0

\* C19: after the source has fallen back to the Low tier no further restart
\* happens: at most one Low-tier watch is ever started per start, and every
\* later Timeout or PositionUnavailable from any registered callback is
\* surfaced as an error.
C19_TwoTierTerminal ==
    /\ [](Cardinality({w \in watches : ~w.high}) <= 1)
    /\ [][\A w \in watches, code \in {2, 3} :
             (PositionError(w, code) /\ \E v \in watches : v.id = watchIdRef /\ ~v.high)
                => /\ permissionError' = (IF code = 2 THEN MsgUnavailable ELSE MsgTimeout)
                   /\ UNCHANGED <<watchIdRef, watches, nextWatchId>>]_vars

\* C12: once the component is unmounted no watch created during the session
\* is still active, whatever starts, fallbacks and errors came before.
C12_TeardownReleasesAll ==
    ~mounted => watches = {}

\* C14: every arrival raises the alarm and asks for the audio whatever the
\* provider does, and while the provider has failed or has not answered the
\* message shown is the fixed fallback string.
C14_ProviderNeverBlocks ==
    /\ [][(~isAlarmActive /\ isAlarmActive') => overlay'.audio = "playing"]_vars
    /\ [](isAlarmActive /\ overlay.provider \in {"pending", "failed"}
            => overlay.message = MsgFallback)

\* C17: calculateDistance of a point and itself is 0, and the distance of a
\* pair of points is the same in both orders.
C17_SymmetricZero ==
    geo.measured => geo.aa = 0 /\ geo.ab = geo.ba

C17_Witness ==
    geo.measured /\ geo.a # geo.b /\ geo.a.lat # geo.a.lng /\ geo.ab = geo.ba /\ geo.ab = 50

\* C21: the evaluation of a fix that repeats the coordinates of the previous
\* fix leaves distance, arm state and alarm flag as they were and emits no
\* arrival event.
C21_RepeatedFixIdempotent ==
    [][(GeofenceEffect /\ last.op = "fix" /\ last.same)
         => /\ UNCHANGED <<distance, hasTriggeredForCurrentTarget, isAlarmActive>>
            /\ last'.fired = 0
            /\ ~effectPending']_vars

C21_Witness ==
    /\ Settled /\ HasTarget
    /\ last.op = "fix" /\ last.same /\ last.fired = 0
    /\ Inside(distance, targetLocation.radius)
    /\ hasTriggeredForCurrentTarget /\ isAlarmActive

\* C22: when the 20 s timer fires it only silences the audio; alarm flag, arm
\* state, target, radius, position and distance stay as they are and no
\* evaluation of the geofence is scheduled, so what later fixes and commands
\* do is what they would have done without it.
C22_AutoStopFrame ==
    [][AutoStop
         => /\ overlay' = [overlay EXCEPT !.audio = "silent"]
            /\ UNCHANGED <<isAlarmActive, hasTriggeredForCurrentTarget, targetLocation,
                           targetRadius, userLocation, distance, effectPending>>]_vars

C22_Witness ==
    /\ Settled /\ HasTarget
    /\ isAlarmActive /\ hasTriggeredForCurrentTarget
    /\ overlay.audio = "silent"
    /\ last.op = "fix"

\* C23: recenter leaves position, target, radius, distance, arm state and
\* alarm flag as they are, schedules no evaluation and emits no arrival event;
\* it asks for the camera on the current position, and without a known
\* position no camera request exists.
C23_RecenterNoMutation ==
    /\ [][handleCenterLocation
            => /\ focusRequest' = [location |-> userLocation]
               /\ UNCHANGED <<userLocation, targetLocation, targetRadius, distance,
                              hasTriggeredForCurrentTarget, isAlarmActive,
                              effectPending>>]_vars
    /\ [](last.op = "center" => last.fired = 0)
    /\ [](userLocation = null => focusRequest = null)

C23_Witness ==
    /\ last.op = "center" /\ Settled /\ HasTarget
    /\ focusRequest = [location |-> userLocation]
    /\ userLocation # [lat |-> targetLocation.lat, lng |-> targetLocation.lng]
    /\ isAlarmActive

\* C24: in a settled state with position and target, a position inside the
\* radius has the alarm active or the target Triggered, and a position beyond
\* the band has the target Armed.
C24_NoMissedNoStuck ==
    (Settled /\ HasTarget) =>
        /\ Inside(distance, targetLocation.radius)
              => (isAlarmActive \/ hasTriggeredForCurrentTarget)
        /\ Beyond(distance, targetLocation.radius) => ~hasTriggeredForCurrentTarget

C24_Witness ==
    /\ Settled /\ HasTarget
    /\ last.op = "fix" /\ last.trig /\ last.active
    /\ Beyond(distance, targetLocation.radius)
    /\ ~hasTriggeredForCurrentTarget /\ isAlarmActive

\* C25: setTarget silences the alarm at once, and when its evaluation has
\* settled the alarm is active exactly if the position is inside the radius of
\* the new target.
C25_SetTargetAlarm ==
    /\ [][(\E location \in TargetCoords : handleSetTarget(location))
            => ~isAlarmActive']_vars
    /\ [](last.op = "setTarget" /\ Settled
            => (isAlarmActive <=> (HasTarget /\ Inside(CurDist, targetLocation.radius))))

C25_Witness ==
    /\ last.op = "setTarget" /\ Settled /\ HasTarget
    /\ last.active /\ ~isAlarmActive
    /\ ~Inside(CurDist, targetLocation.radius)

\* C26: the radius of an existing target is the current radius setting, and a
\* target that is set gets the radius setting of that moment.
C26_RadiusConsistent ==
    /\ [](targetLocation # null => targetLocation.radius = targetRadius)
    /\ [][(targetLocation' # targetLocation /\ targetLocation' # null)
            => targetLocation'.radius = targetRadius']_vars

C26_Witness ==
    /\ last.op = "setTarget" /\ Settled /\ HasTarget
    /\ focusRequest = [location |-> [lat |-> targetLocation.lat, lng |-> targetLocation.lng]]
    /\ targetRadius = 200 /\ targetLocation.radius = 200

\* C27: a location error changes neither position, target, distance, arm
\* state nor alarm flag, and a known position never becomes unknown again.
C27_ErrorsKeepEngine ==
    /\ [][(\E w \in watches, code \in ErrorCodes : PositionError(w, code))
            => UNCHANGED <<userLocation, targetLocation, targetRadius, distance,
                           hasTriggeredForCurrentTarget, isAlarmActive,
                           effectPending>>]_vars
    /\ [][userLocation # null => userLocation' # null]_vars

C27_Witness ==
    /\ last.op = "error" /\ last.code = 1 /\ permissionError = MsgDenied
    /\ HasTarget /\ isAlarmActive /\ distance = CurDist

====
